---- MODULE Spec2Model ----
(***************************************************************************)
(* A model of finalynx/portfolio/folder.py: the Folder / SharedFolder /    *)
(* Portfolio tree, attribute propagation on attach, the processing pass,   *)
(* line matching, aggregation, serialisation and the sidecar rendering.    *)
(*                                                                         *)
(* The heap of Python objects is an arena: `nodes` is the sequence of all  *)
(* Node objects ever constructed (index = object identity, 0 = None) and   *)
(* `buckets` maps a Bucket's name to its list of lines and its used        *)
(* amount.  Every method is a function from a world [nodes, buckets] to a  *)
(* world; an action applies one method call to the current world.          *)
(***************************************************************************)
EXTENDS Integers, Sequences, FiniteSets, TLC

VARIABLES nodes, buckets, last, extra

vars == <<nodes, buckets, last, extra>>

(* ------------------------------ bounds -------------------------------- *)

\* Longest children list in a portfolio declaration.
MaxKids == 2

\* Lines attached after construction (by add_child and by match_lines).
MaxExtra == 1

(* ----------------------------- constants ------------------------------ *)

EXPANDED == 0

COLLAPSED == 1

LINE == 2

UNKNOWN == "UNKNOWN"

None == "None"

\* target_amount: a finite amount, or np.inf (the constructor's default)
Inf == [inf |-> TRUE, v |-> 0]

Finite(v) == [inf |-> FALSE, v |-> v]

NoPerf == [set |-> FALSE, expected |-> 0, skip |-> FALSE]

NoTarget == [check |-> "none", ideal |-> 0]

\* Default constructor arguments (the keyword defaults of folder.py 54-67, 357-368).
DefaultArgs ==
    [name |-> "n", asset_class |-> UNKNOWN, asset_subclass |-> UNKNOWN,
     target |-> NoTarget, newline |-> FALSE, perf |-> NoPerf,
     currency |-> None, envelope |-> None, display |-> EXPANDED,
     amount |-> 0, ideal |-> 0, target_amount |-> Inf]

\* The current heap as a world; `log` collects the calls of a processing pass.
World == [nodes |-> nodes, buckets |-> buckets, log |-> <<>>]

(* --------------------------- small helpers ---------------------------- *)

Min(a, b) == IF a < b THEN a ELSE b

Max(a, b) == IF a > b THEN a ELSE b

Ids(W) == 1..Len(W.nodes)

IsFolder(n) == n.kind \in {"folder", "shared"}

IsLine(n) == n.kind = "line"

\* The list object a folder's `children` attribute refers to: a SharedFolder
\* that has not been processed yet holds the Bucket's own `lines` list.
ChildrenOf(W, f) ==
    IF W.nodes[f].alias # None
    THEN W.buckets[W.nodes[f].alias].lines
    ELSE W.nodes[f].children

SeqToSet(s) == {s[i] : i \in 1..Len(s)}

Kids(W, f) == IF IsFolder(W.nodes[f]) THEN SeqToSet(ChildrenOf(W, f)) ELSE {}

RECURSIVE ReachN(_, _, _)
ReachN(W, S, k) ==
    IF k = 0 THEN S
    ELSE ReachN(W, S \cup UNION {Kids(W, x) : x \in S}, k - 1)

\* Nodes reachable from f through children lists, f excluded unless on a cycle.
Descendants(W, f) == ReachN(W, Kids(W, f), Len(W.nodes))

Acyclic(W) == \A f \in Ids(W) : f \notin Descendants(W, f)

Occurrences(s, x) == Cardinality({i \in 1..Len(s) : s[i] = x})

\* The folders whose children list holds c.
Holders(W, c) ==
    {f \in Ids(W) : IsFolder(W.nodes[f]) /\ Occurrences(ChildrenOf(W, f), c) > 0}

(* --------------------------- Node and Line ---------------------------- *)

\* Node.__init__: stores the constructor's arguments.  `src` is not a Python
\* attribute: it remembers which Bucket line an allocated Line was cut from.
Node_init(kind, a) ==
    [kind |-> kind, name |-> a.name, parent |-> 0,
     asset_class |-> a.asset_class, asset_subclass |-> a.asset_subclass,
     target |-> a.target, newline |-> a.newline, perf |-> a.perf,
     currency |-> a.currency, envelope |-> a.envelope,
     children |-> <<>>, alias |-> None, display |-> EXPANDED,
     amount |-> 0, ideal |-> 0, target_amount |-> Inf, bucket |-> None, src |-> 0]

\* Line(...): a leaf holding an amount (and the ideal its target yields).
Line_init(a) == [Node_init("line", a) EXCEPT !.amount = a.amount, !.ideal = a.ideal]

\* Node.set_parent
set_parent(W, child, f) == [W EXCEPT !.nodes[child].parent = f]

(* ----------------------- attribute propagation ------------------------ *)

\* The values a folder pushes down: its own five attributes.
AttribsOf(n) ==
    [asset_class |-> n.asset_class, asset_subclass |-> n.asset_subclass,
     perf |-> n.perf, currency |-> n.currency, envelope |-> n.envelope]

\* Python truthiness of an Optional[str]: None and "" are both false.
Truthy(s) == s # None /\ s # ""

new_asset_class_mutant(child_value, value) == value

\* child.asset_class = asset_class if child.asset_class == UNKNOWN else child.asset_class
new_asset_class(child_value, value) ==
    IF child_value = UNKNOWN THEN value ELSE child_value

new_currency_mutant(child_value, value) ==
    IF child_value = None THEN value ELSE child_value

\* child.currency = currency if currency else child.currency
new_currency(child_value, value) ==
    IF Truthy(value) THEN value ELSE child_value

\* child.envelope = envelope if envelope else child.envelope
new_envelope(child_value, value) ==
    IF value # None THEN value ELSE child_value

\* if perf and (not child.perf or (child.perf and child.perf.expected == 0)): child.perf = perf
new_perf(child_value, value) ==
    IF value.set /\ (~child_value.set \/ child_value.expected = 0)
    THEN value ELSE child_value

RECURSIVE set_child_attribs(_, _, _)
RECURSIVE set_children_attribs(_, _, _, _)

\* Folder.set_child_attribs(child, asset_class, asset_subclass, perf, currency, envelope)
set_child_attribs(W, child, at) ==
    LET n  == W.nodes[child]
        n1 == [n EXCEPT
                 !.asset_class    = new_asset_class(@, at.asset_class),
                 !.asset_subclass = new_asset_class(@, at.asset_subclass),
                 !.currency       = new_currency(@, at.currency),
                 !.envelope       = new_envelope(@, at.envelope),
                 !.perf           = new_perf(@, at.perf)]
        W1 == [W EXCEPT !.nodes[child] = n1]
    IN  IF IsFolder(n)
        THEN set_children_attribs(W1, ChildrenOf(W1, child), at, 1)
        ELSE W1

\* for c in child.children: child.set_child_attribs(c, ...)
set_children_attribs(W, kids, at, i) ==
    IF i > Len(kids) THEN W
    ELSE set_children_attribs(set_child_attribs(W, kids[i], at), kids, at, i + 1)

(* ---------------------------- construction ---------------------------- *)

RECURSIVE attach_children(_, _, _, _)
\* Folder.__init__: for child in self.children: set_parent, set_child_attribs
attach_children(W, f, kids, i) ==
    IF i > Len(kids) THEN W
    ELSE attach_children(
             set_child_attribs(set_parent(W, kids[i], f), kids[i], AttribsOf(W.nodes[f])),
             f, kids, i + 1)

\* Folder(name, ..., children, newline, display, perf, currency, envelope)
Folder_init(W, a, kids) ==
    LET f   == Len(W.nodes) + 1
        rec == [Node_init("folder", a) EXCEPT !.children = kids, !.display = a.display]
    IN  attach_children([W EXCEPT !.nodes = Append(@, rec)], f, kids, 1)

\* SharedFolder(name, bucket, ..., target_amount, target, newline, display):
\* super().__init__(..., bucket.lines, newline=False, ...) makes the Bucket's
\* own list the children list; then target_amount, newline, bucket are set.
SharedFolder_init(W, a, b) ==
    LET f   == Len(W.nodes) + 1
        rec == [Node_init("shared", [a EXCEPT !.newline = FALSE]) EXCEPT
                  !.alias = b, !.display = a.display]
        W1  == attach_children([W EXCEPT !.nodes = Append(@, rec)], f, W.buckets[b].lines, 1)
    IN  [W1 EXCEPT !.nodes[f].target_amount = a.target_amount,
                   !.nodes[f].newline = a.newline,
                   !.nodes[f].bucket = b]

\* self.children.append(child), on the list object self.children refers to
append_child(W, f, child) ==
    IF W.nodes[f].alias # None
    THEN [W EXCEPT !.buckets[W.nodes[f].alias].lines = Append(@, child)]
    ELSE [W EXCEPT !.nodes[f].children = Append(@, child)]

\* Folder.add_child(child)
add_child(W, f, child) ==
    LET W1 == set_parent(W, child, f)
        W2 == append_child(W1, f, child)
    IN  set_child_attribs(W2, child, AttribsOf(W2.nodes[f]))

(* ----------------------------- aggregation ---------------------------- *)

\* Line.get_amount
Line_get_amount(W, n) == W.nodes[n].amount

RECURSIVE get_amount(_, _)
RECURSIVE sum_amounts(_, _, _)

get_amount_mutant(W, n) ==
    IF IsLine(W.nodes[n]) THEN Line_get_amount(W, n)
    ELSE IF ChildrenOf(W, n) = <<>> THEN 0
         ELSE sum_amounts(W, Tail(ChildrenOf(W, n)), 1)

\* Folder.get_amount: float(np.sum([child.get_amount() ...]) if self.children else 0)
get_amount(W, n) ==
    IF IsLine(W.nodes[n]) THEN Line_get_amount(W, n)
    ELSE IF ChildrenOf(W, n) = <<>> THEN 0
         ELSE sum_amounts(W, ChildrenOf(W, n), 1)

sum_amounts(W, kids, i) ==
    IF i > Len(kids) THEN 0
    ELSE get_amount(W, kids[i]) + sum_amounts(W, kids, i + 1)

(* ------------------------- weighted performance ---------------------- *)

Abs(n) == IF n < 0 THEN -n ELSE n

RECURSIVE GCD(_, _)
GCD(a, b) == IF b = 0 THEN a ELSE GCD(b, a % b)

\* Exact fractions stand for the floats: n/d in lowest terms, d > 0.
Rat(n, d) ==
    LET g == GCD(Abs(n), Abs(d))
        s == IF d < 0 THEN -1 ELSE 1
    IN  [num |-> (s * n) \div g, den |-> (s * d) \div g]

RInt(n) == [num |-> n, den |-> 1]

RAdd(x, y) == Rat(x.num * y.den + y.num * x.den, x.den * y.den)

RMul(x, y) == Rat(x.num * y.num, x.den * y.den)

RECURSIVE RSum(_, _)
\* np.sum of a list of fractions (from its i-th element on)
RSum(xs, i) == IF i > Len(xs) THEN RInt(0) ELSE RAdd(xs[i], RSum(xs, i + 1))

RECURSIVE ISum(_, _)
\* np.sum of a list of integers
ISum(xs, i) == IF i > Len(xs) THEN 0 ELSE xs[i] + ISum(xs, i + 1)

\* LinePerf(expected, skip=False)
LinePerf(expected, skip) == [expected |-> expected, skip |-> skip]

\* Line.get_perf: the line's own perf
Line_get_perf(W, c) == LinePerf(RInt(W.nodes[c].perf.expected), W.nodes[c].perf.skip)

\* Line.get_ideal: what the line's target yields
Line_get_ideal(W, c) == W.nodes[c].ideal

RECURSIVE get_ideal(_, _)
\* Folder.get_ideal
get_ideal(W, n) ==
    IF IsLine(W.nodes[n]) THEN Line_get_ideal(W, n)
    ELSE IF W.nodes[n].target.check # "none" THEN W.nodes[n].target.ideal
         ELSE LET kids == ChildrenOf(W, n)
              IN  ISum([i \in 1..Len(kids) |-> get_ideal(W, kids[i])], 1)

perf_candidates_mutant(W, f) == ChildrenOf(W, f)

\* children = [c for c in self.children if not (isinstance(c, Line) and c.perf.skip)]
perf_candidates(W, f) ==
    SelectSeq(ChildrenOf(W, f), LAMBDA c : ~(IsLine(W.nodes[c]) /\ W.nodes[c].perf.skip))

\* amounts = [(c.get_ideal() if ideal else c.get_amount()) for c in children]
perf_amounts(W, cands, ideal) ==
    [i \in 1..Len(cands) |->
        IF ideal THEN get_ideal(W, cands[i]) ELSE get_amount(W, cands[i])]

perf_weights_mutant(amounts) == [i \in 1..Len(amounts) |-> Rat(1, Len(amounts))]

\* weights: equal when the total is zero, else amount / total
perf_weights(amounts) ==
    LET total == ISum(amounts, 1) IN
    IF total = 0
    THEN [i \in 1..Len(amounts) |-> Rat(1, Len(amounts))]
    ELSE [i \in 1..Len(amounts) |-> Rat(amounts[i], total)]

RECURSIVE get_perf(_, _, _)

\* c.get_perf(ideal) if isinstance(c, Folder) else c.get_perf()
node_perf(W, c, ideal) ==
    IF IsFolder(W.nodes[c]) THEN get_perf(W, c, ideal) ELSE Line_get_perf(W, c)

\* Folder.get_perf(ideal)
get_perf(W, f, ideal) ==
    LET children == perf_candidates(W, f)
        perfs    == [i \in 1..Len(children) |-> node_perf(W, children[i], ideal)]
    IN  IF children = <<>> \/ \A i \in 1..Len(perfs) : perfs[i].skip
        THEN LinePerf(RInt(0), TRUE)
        ELSE LET weights == perf_weights(perf_amounts(W, children, ideal))
             IN  LinePerf(RSum([i \in 1..Len(perfs) |-> RMul(weights[i], perfs[i].expected)], 1),
                          FALSE)

(* ------------------------------- Bucket ------------------------------- *)

RECURSIVE use_lines(_, _, _, _, _, _, _)
\* The allocation walk of Bucket.use_amount: the part of each line that lies
\* in the window [lo, hi) of the pool becomes a new Line holding that part.
use_lines(W, ls, i, start, lo, hi, got) ==
    IF i > Len(ls) THEN [W |-> W, got |-> got]
    ELSE LET src  == W.nodes[ls[i]]
             a    == get_amount(W, ls[i])
             part == Max(0, Min(start + a, hi) - Max(start, lo))
             new  == [src EXCEPT !.kind = "line", !.amount = part, !.parent = 0,
                                 !.children = <<>>, !.alias = None, !.src = ls[i]]
         IN  IF part > 0
             THEN use_lines([W EXCEPT !.nodes = Append(@, new)], ls, i + 1, start + a,
                            lo, hi, Append(got, Len(W.nodes) + 1))
             ELSE use_lines(W, ls, i + 1, start + a, lo, hi, got)

\* Bucket.use_amount(target_amount): allocates, in line order, what is left of
\* the pool up to target_amount and returns it as a new sequence of Lines.
use_amount(W, b, target_amount) ==
    LET bk    == W.buckets[b]
        total == sum_amounts(W, bk.lines, 1)
        left  == Max(0, total - bk.used)
        take  == IF target_amount.inf THEN left ELSE Min(target_amount.v, left)
        r     == use_lines(W, bk.lines, 1, 0, bk.used, bk.used + take, <<>>)
    IN  [W |-> [r.W EXCEPT !.buckets[b].used = bk.used + take], got |-> r.got]

(* ------------------------------ processing ---------------------------- *)

Event(ev, n) == [ev |-> ev, node |-> n]

RECURSIVE process(_, _)
RECURSIVE process_children(_, _, _)
RECURSIVE reparent(_, _, _, _)
RECURSIVE process_children_mutant(_, _, _)

process_children_mutant(W, kids, i) ==
    IF i > Len(kids) THEN W
    ELSE process(process_children_mutant(W, kids, i + 1), kids[i])

\* for child in self.children: child.process()
process_children(W, kids, i) ==
    IF i > Len(kids) THEN W
    ELSE process_children(process(W, kids[i]), kids, i + 1)

\* Folder.process: processes every child in list order (the ratio warning
\* that follows is console output and changes no state).
Folder_process(W, f) == process_children(W, ChildrenOf(W, f), 1)

\* for child in self.children: child.set_parent(self)
reparent(W, f, kids, i) ==
    IF i > Len(kids) THEN W
    ELSE reparent(set_parent(W, kids[i], f), f, kids, i + 1)

last_newline_mutant(W, f, kids) == W

\* if self.children: self.children[-1].newline = self.newline
last_newline(W, f, kids) ==
    IF kids # <<>>
    THEN [W EXCEPT !.nodes[kids[Len(kids)]].newline = W.nodes[f].newline]
    ELSE W

\* SharedFolder.process
SharedFolder_process(W, f) ==
    LET W1 == Folder_process(W, f)
        r  == use_amount([W1 EXCEPT !.log = Append(@, Event("use_amount", f))],
                         W1.nodes[f].bucket, W1.nodes[f].target_amount)
        W2 == [r.W EXCEPT !.nodes[f].children = r.got, !.nodes[f].alias = None]
        W3 == reparent(W2, f, r.got, 1)
    IN  last_newline(W3, f, r.got)

\* node.process(), dispatched on the node's class; Line.process changes
\* nothing the tree shows.  The log records the call and its return.
process(W, n) ==
    LET W0 == [W EXCEPT !.log = Append(@, Event("process", n))]
        W1 == CASE W.nodes[n].kind = "shared" -> SharedFolder_process(W0, n)
                [] W.nodes[n].kind = "folder" -> Folder_process(W0, n)
                [] OTHER -> W0
    IN  [W1 EXCEPT !.log = Append(@, Event("return", n))]

(* ---------------------------- line matching --------------------------- *)

EnvKey(e) == IF e = "PEA" THEN "pea_key" ELSE "av_key"

EnvName(e) == e

\* FetchLine.generate_line()
generate_line(fl) == Line_init([DefaultArgs EXCEPT !.name = fl.name, !.amount = fl.amount])

\* FetchLine.matches_line(line): an external predicate on the line
matches_line(fl, n) == n.name \in fl.matching

RECURSIVE match_lines(_, _, _)
RECURSIVE match_children(_, _, _, _, _)

\* Folder.match_lines(fetch_line): the world after the call and the list returned
match_lines(W, f, fl) ==
    LET n   == W.nodes[f]
        hit == n.envelope # None /\ fl.account \in {EnvKey(n.envelope), EnvName(n.envelope)}
        g   == Len(W.nodes) + 1
        W1  == IF hit
               THEN add_child([W EXCEPT !.nodes = Append(@, generate_line(fl))], f, g)
               ELSE W
    IN  match_children(W1, ChildrenOf(W1, f), fl, 1, IF hit THEN <<g>> ELSE <<>>)

\* for child in self.children: collect matching lines, recurse into folders
match_children(W, kids, fl, i, matched) ==
    IF i > Len(kids) THEN [W |-> W, matched |-> matched]
    ELSE LET c == kids[i] IN
         IF IsLine(W.nodes[c]) /\ matches_line(fl, W.nodes[c])
         THEN match_children(W, kids, fl, i + 1, Append(matched, c))
         ELSE IF IsFolder(W.nodes[c])
              THEN LET r == match_lines(W, c, fl)
                   IN  match_children(r.W, kids, fl, i + 1, matched \o r.matched)
              ELSE match_children(W, kids, fl, i + 1, matched)

(* ------------------- nested constructor expressions ------------------ *)

\* A portfolio is declared as one nested expression, e.g.
\*   Folder("root", children=[Line(..), Folder(.., children=[..]), SharedFolder(.., bucket)])
\* Python evaluates the children first, left to right, then the constructor.
LineDecl(a) == [k |-> "line", a |-> a, kids |-> <<>>, b |-> None]

FolderDecl(a, kids) == [k |-> "folder", a |-> a, kids |-> kids, b |-> None]

SharedDecl(a, b) == [k |-> "shared", a |-> a, kids |-> <<>>, b |-> b]

RECURSIVE Build(_, _)
RECURSIVE BuildList(_, _, _, _)

\* The world after evaluating the expression d, and the object it yields.
Build(W, d) ==
    CASE d.k = "line" ->
           [W |-> [W EXCEPT !.nodes = Append(@, Line_init(d.a))], id |-> Len(W.nodes) + 1]
      [] d.k = "shared" ->
           [W |-> SharedFolder_init(W, d.a, d.b), id |-> Len(W.nodes) + 1]
      [] OTHER ->
           LET r == BuildList(W, d.kids, 1, <<>>)
           IN  [W |-> Folder_init(r.W, d.a, r.ids), id |-> Len(r.W.nodes) + 1]

BuildList(W, ds, i, ids) ==
    IF i > Len(ds) THEN [W |-> W, ids |-> ids]
    ELSE LET r == Build(W, ds[i])
         IN  BuildList(r.W, ds, i + 1, Append(ids, r.id))

\* Sequences over S of length at most n.
SeqsUpTo(S, n) == UNION {[1..k -> S] : k \in 0..n}

(* ------------------------------- actions ------------------------------ *)

\* What the last call was: the method, the folder it was called on, its
\* argument, what it returned, the folder's children list and the number of
\* objects before the call, the calls a processing pass made and every
\* node's children list before that pass (before an attach: every node).
Last(op, f, arg, ret, W, log) ==
    [op |-> op, f |-> f, arg |-> arg, ret |-> ret,
     pre |-> IF f \in Ids(W) THEN ChildrenOf(W, f) ELSE <<>>,
     n0 |-> Len(W.nodes), log |-> log,
     was |-> CASE op = "process" ->
                    [n \in Ids(W) |-> IF IsFolder(W.nodes[n]) THEN ChildrenOf(W, n) ELSE <<>>]
               [] op \in {"Folder", "add_child"} -> W.nodes
               [] OTHER -> <<>>]

Commit(W) ==
    /\ nodes' = W.nodes
    /\ buckets' = W.buckets

\* f.add_child(Line(...)): a new line attached to a plain Folder after
\* construction (a SharedFolder's children come from its Bucket).
AddChild(f, a) ==
    /\ extra < MaxExtra
    /\ nodes[f].kind = "folder"
    /\ LET c == Len(nodes) + 1
           W == [World EXCEPT !.nodes = Append(@, Line_init(a))]
       IN  /\ Commit(add_child(W, f, c))
           /\ last' = Last("add_child", f, c, <<>>, World, <<>>)
    /\ extra' = extra + 1

\* root.process()
Process(f) ==
    /\ IsFolder(nodes[f])
    /\ nodes[f].parent = 0
    /\ LET W == process(World, f) IN
         /\ Commit(W)
         /\ last' = Last("process", f, 0, <<>>, World, W.log)
    /\ UNCHANGED extra

\* root.match_lines(fetch_line)
MatchLines(f, fl) ==
    /\ IsFolder(nodes[f])
    /\ nodes[f].parent = 0
    /\ LET r == match_lines(World, f, fl)
           n == Len(r.W.nodes) - Len(nodes)
       IN  /\ extra + n <= MaxExtra
           /\ Commit(r.W)
           /\ last' = Last("match_lines", f, fl, r.matched, World, <<>>)
           /\ extra' = extra + n

(* ----------------- the tree under construction and use ---------------- *)

\* The Bucket "B" of two lines, built before any folder refers to it.
BucketLine(amount, newline) ==
    Line_init([DefaultArgs EXCEPT !.name = "b", !.amount = amount, !.newline = newline])

BucketWorlds ==
    {[nodes |-> <<BucketLine(2, nl), BucketLine(1, nl)>>,
      buckets |-> [b \in {"B"} |-> [lines |-> <<1, 2>>, used |-> 0]],
      log |-> <<>>] : nl \in BOOLEAN}

TreeLine == LineDecl([DefaultArgs EXCEPT !.amount = 3])

TreeKids ==
    {TreeLine}
    \cup {FolderDecl(DefaultArgs, <<TreeLine>>)}
    \cup {SharedDecl([DefaultArgs EXCEPT !.target_amount = t, !.newline = nl], "B")
            : t \in {Finite(1), Inf}, nl \in BOOLEAN}

TreeDecls ==
    {FolderDecl([DefaultArgs EXCEPT !.name = "root", !.envelope = e], kids)
       : e \in {None, "PEA"}, kids \in SeqsUpTo(TreeKids, MaxKids)}

Init ==
    /\ \E W0 \in BucketWorlds, d \in TreeDecls :
         LET W == Build(W0, d).W IN
           /\ nodes = W.nodes
           /\ buckets = W.buckets
           /\ last = Last("Folder", Len(W.nodes), 0, <<>>, W0, <<>>)
    /\ extra = 0

FetchLines ==
    [account : {"pea_key"}, name : {"g"}, amount : {1}, matching : SUBSET {"n", "g"}]

Next ==
    \/ \E f \in Ids(World) : AddChild(f, [DefaultArgs EXCEPT !.amount = 3])
    \/ \E f \in Ids(World) : Process(f)
    \/ \E f \in Ids(World), fl \in FetchLines : MatchLines(f, fl)

Spec == Init /\ [][Next]_vars

(* ------------------- attaching children to folders ------------------- *)

\* Folder(...) called with a list of existing objects.
NewFolder(a, kids) ==
    /\ extra < MaxExtra
    /\ Commit(Folder_init(World, a, kids))
    /\ last' = Last("Folder", Len(nodes) + 1, 0, kids, World, <<>>)
    /\ extra' = extra + 1

\* Objects no folder holds.
Roots(W) == {c \in Ids(W) : W.nodes[c].parent = 0 /\ Holders(W, c) = {}}

\* f.add_child(c) for an existing object c that no folder holds yet.
Attach(f, c) ==
    /\ nodes[f].kind = "folder"
    /\ c \in Roots(World)
    /\ Acyclic(append_child(World, f, c))
    /\ Commit(add_child(World, f, c))
    /\ last' = Last("add_child", f, c, <<>>, World, <<>>)
    /\ UNCHANGED extra

Perf(expected, skip) == [set |-> TRUE, expected |-> expected, skip |-> skip]

\* The attribute values objects are constructed with.
Profiles ==
    {[asset_class |-> UNKNOWN, asset_subclass |-> UNKNOWN, currency |-> None,
      envelope |-> None, perf |-> NoPerf],
     [asset_class |-> "equity", asset_subclass |-> "etf", currency |-> "EUR",
      envelope |-> "PEA", perf |-> Perf(5, FALSE)],
     [asset_class |-> "cash", asset_subclass |-> "livret", currency |-> "USD",
      envelope |-> "AV", perf |-> Perf(0, TRUE)],
     [asset_class |-> UNKNOWN, asset_subclass |-> "etf", currency |-> "",
      envelope |-> "AV", perf |-> Perf(3, FALSE)],
     [asset_class |-> "cash", asset_subclass |-> UNKNOWN, currency |-> "USD",
      envelope |-> None, perf |-> NoPerf],
     [asset_class |-> "equity", asset_subclass |-> UNKNOWN, currency |-> None,
      envelope |-> "PEA", perf |-> Perf(0, FALSE)]}

WithProfile(p) ==
    [DefaultArgs EXCEPT !.asset_class = p.asset_class, !.asset_subclass = p.asset_subclass,
                        !.currency = p.currency, !.envelope = p.envelope, !.perf = p.perf]

\* The object a caller has before attaching it: a line, or a folder built
\* over one or two lines (which received the folder's values then).
AttachDecls ==
    {LineDecl(WithProfile(p)) : p \in Profiles}
    \cup {FolderDecl(WithProfile(p), <<LineDecl(WithProfile(q))>>) : p, q \in Profiles}
    \cup {FolderDecl(WithProfile(p), <<LineDecl(WithProfile(q)), LineDecl(WithProfile(r))>>)
            : p, q, r \in Profiles}

NoBuckets == [b \in {} |-> [lines |-> <<>>, used |-> 0]]

InitAttach ==
    /\ \E d \in AttachDecls :
         LET W0 == [nodes |-> <<>>, buckets |-> NoBuckets, log |-> <<>>]
             W  == Build(W0, d).W
         IN  /\ nodes = W.nodes
             /\ buckets = W.buckets
             /\ last = Last("init", 0, 0, <<>>, W0, <<>>)
    /\ extra = 0

NextAttach ==
    \/ \E p \in Profiles, kids \in {<<>>} \cup {<<c>> : c \in Roots(World)} :
          NewFolder(WithProfile(p), kids)
    \/ \E f, c \in Ids(World) : Attach(f, c)

SpecAttach == InitAttach /\ [][NextAttach]_vars

(* ---------------------- performance of a portfolio -------------------- *)

\* f.get_perf(ideal): a query, the tree is left as it is.
GetPerf(f, ideal) ==
    /\ IsFolder(nodes[f])
    /\ last' = Last("get_perf", f, ideal, get_perf(World, f, ideal), World, <<>>)
    /\ UNCHANGED <<nodes, buckets, extra>>

\* Lines by amount, ideal amount and performance.
PerfLine(amount, ideal, expected, skip) ==
    [DefaultArgs EXCEPT !.amount = amount, !.ideal = ideal, !.perf = Perf(expected, skip)]

PerfLines ==
    {PerfLine(1, 0, 5, FALSE), PerfLine(2, 3, 2, FALSE),
     PerfLine(0, 0, 3, FALSE), PerfLine(2, 1, 4, TRUE)}

WithTarget(ideal) == [DefaultArgs EXCEPT !.target = [check |-> "ok", ideal |-> ideal]]

PerfKids ==
    {LineDecl(a) : a \in PerfLines}
    \cup {FolderDecl(DefaultArgs, <<LineDecl(a)>>) : a \in PerfLines}
    \cup {FolderDecl(WithTarget(2), <<>>),
          FolderDecl(WithTarget(1), <<LineDecl(PerfLine(1, 0, 5, FALSE))>>)}

PerfDecls ==
    {FolderDecl([DefaultArgs EXCEPT !.name = "root"], kids) : kids \in SeqsUpTo(PerfKids, MaxKids)}

InitPerf ==
    /\ \E d \in PerfDecls :
         LET W0 == [nodes |-> <<>>, buckets |-> NoBuckets, log |-> <<>>]
             W  == Build(W0, d).W
         IN  /\ nodes = W.nodes
             /\ buckets = W.buckets
             /\ last = Last("init", 0, 0, <<>>, W0, <<>>)
    /\ extra = 0

NextPerf ==
    \/ \E f \in Ids(World), ideal \in BOOLEAN : GetPerf(f, ideal)
    \/ \E f \in Roots(World), a \in {PerfLine(2, 3, 2, FALSE), PerfLine(2, 1, 4, TRUE)} :
         AddChild(f, a)

SpecPerf == InitPerf /\ [][NextPerf]_vars

(* ------------------------ saving and loading -------------------------- *)

FolderDisplay_mutant(value) == EXPANDED

\* FolderDisplay(value): the member with that value
FolderDisplay(value) == CHOOSE d \in {EXPANDED, COLLAPSED, LINE} : d = value

\* Target.to_dict / Target.from_dict
Target_to_dict(t) == <<t.check, t.ideal>>

Target_from_dict(d) == [check |-> d[1], ideal |-> d[2]]

\* Line.to_dict / Line.from_dict
Line_to_dict(W, n) ==
    [type |-> "line", name |-> W.nodes[n].name, amount |-> W.nodes[n].amount,
     newline |-> W.nodes[n].newline]

Line_from_dict(d) ==
    Line_init([DefaultArgs EXCEPT !.name = d.name, !.amount = d.amount, !.newline = d.newline])

\* SharedFolder.to_dict
SharedFolder_to_dict(W, n) ==
    [type |-> "shared_folder", name |-> W.nodes[n].name, bucket_name |-> W.nodes[n].bucket,
     target_amount |-> W.nodes[n].target_amount, target |-> Target_to_dict(W.nodes[n].target),
     newline |-> W.nodes[n].newline, display |-> W.nodes[n].display]

\* SharedFolder.from_dict
SharedFolder_from_dict(W, d) ==
    SharedFolder_init(W,
        [DefaultArgs EXCEPT !.name = d.name, !.target_amount = d.target_amount,
                            !.target = Target_from_dict(d.target), !.newline = d.newline,
                            !.display = FolderDisplay(d.display)],
        d.bucket_name)

RECURSIVE to_dict(_, _)
\* Folder.to_dict, each child answering with the to_dict of its own class
to_dict(W, n) ==
    CASE W.nodes[n].kind = "line"   -> Line_to_dict(W, n)
      [] W.nodes[n].kind = "shared" -> SharedFolder_to_dict(W, n)
      [] OTHER ->
           LET kids == W.nodes[n].children IN
           [type |-> "folder", name |-> W.nodes[n].name,
            target |-> Target_to_dict(W.nodes[n].target),
            children |-> [i \in 1..Len(kids) |-> to_dict(W, kids[i])],
            newline |-> W.nodes[n].newline, display |-> W.nodes[n].display]

RECURSIVE from_dict(_, _)
RECURSIVE from_dict_children(_, _, _, _)

\* Folder.from_dict: the world after the call and the folder it returns
from_dict(W, d) ==
    LET r == from_dict_children(W, d.children, 1, <<>>)
    IN  [W  |-> Folder_init(r.W,
                    [DefaultArgs EXCEPT !.name = d.name, !.target = Target_from_dict(d.target),
                                        !.display = FolderDisplay(d.display),
                                        !.newline = d.newline],
                    r.ids),
         id |-> Len(r.W.nodes) + 1]

\* for child_dict in dict["children"]: a child of no known type is left out
from_dict_children(W, ds, i, ids) ==
    IF i > Len(ds) THEN [W |-> W, ids |-> ids]
    ELSE CASE ds[i].type = "line" ->
                from_dict_children([W EXCEPT !.nodes = Append(@, Line_from_dict(ds[i]))],
                                   ds, i + 1, Append(ids, Len(W.nodes) + 1))
           [] ds[i].type = "folder" ->
                LET r == from_dict(W, ds[i])
                IN  from_dict_children(r.W, ds, i + 1, Append(ids, r.id))
           [] ds[i].type = "shared_folder" ->
                from_dict_children(SharedFolder_from_dict(W, ds[i]),
                                   ds, i + 1, Append(ids, Len(W.nodes) + 1))
           [] OTHER -> from_dict_children(W, ds, i + 1, ids)

\* Folder.from_dict(t.to_dict(), buckets, envelopes), the tables being the
\* program's own buckets.
RoundTrip(t) ==
    /\ extra < MaxExtra
    /\ nodes[t].kind = "folder"
    /\ nodes[t].parent = 0
    /\ LET r == from_dict(World, to_dict(World, t))
       IN  /\ Commit(r.W)
           /\ last' = Last("from_dict", t, 0, <<r.id>>, World, <<>>)
    /\ extra' = extra + 1

DictLine == LineDecl([DefaultArgs EXCEPT !.name = "l", !.amount = 3, !.newline = TRUE])

DictKids ==
    {DictLine,
     FolderDecl([DefaultArgs EXCEPT !.name = "e", !.display = LINE], <<>>),
     FolderDecl([DefaultArgs EXCEPT !.name = "f", !.display = COLLAPSED, !.newline = TRUE,
                                    !.target = [check |-> "ok", ideal |-> 2]],
                <<DictLine>>)}
    \cup {SharedDecl([DefaultArgs EXCEPT !.name = "s", !.target_amount = Finite(1),
                                          !.newline = TRUE], "B"),
          SharedDecl([DefaultArgs EXCEPT !.name = "s", !.display = COLLAPSED], "B")}

DictDecls ==
    {FolderDecl([DefaultArgs EXCEPT !.name = "root"], kids) : kids \in SeqsUpTo(DictKids, MaxKids)}

InitDict ==
    /\ \E W0 \in BucketWorlds, d \in DictDecls :
         LET W == Build(W0, d).W IN
           /\ nodes = W.nodes
           /\ buckets = W.buckets
           /\ last = Last("Folder", Len(W.nodes), 0, <<>>, W0, <<>>)
    /\ extra = 0

NextDict ==
    \/ \E f \in Ids(World) : Process(f)
    \/ \E t \in Ids(World) : RoundTrip(t)

SpecDict == InitDict /\ [][NextDict]_vars

(* ----------------------------- rendering ------------------------------ *)

\* Node.render(format): the text a node yields for a template, as far as
\* its being empty goes.
Node_render(W, n, format) ==
    CASE format = "[name]"   -> W.nodes[n].name
      [] format = "[amount]" -> IF get_amount(W, n) = 0 THEN "" ELSE "amount"
      [] OTHER               -> ""

\* Node._render_newline and its override Folder._render_newline
render_newline(W, n) ==
    IF IsFolder(W.nodes[n])
    THEN W.nodes[n].newline /\ W.nodes[n].display # EXPANDED
    ELSE W.nodes[n].newline

\* One row of a rich Tree: the node it stands for, its text, whether the
\* text ends in a newline and whether the title line precedes it.
Row(n, text, nl) == [node |-> n, text |-> text, nl |-> nl, title |-> FALSE]

\* rich's Tree(label) and the absent _tree argument
RichTree(label) == [made |-> TRUE, label |-> label, children |-> <<>>]

NoTree == [made |-> FALSE, label |-> Row(0, "", FALSE), children |-> <<>>]

RECURSIVE tree(_, _, _)
\* Folder.tree (Node.tree for a leaf): the node's rendering, with the
\* renderings of its children below it when the folder is EXPANDED.
tree(W, n, output_format) ==
    LET render == Row(n, Node_render(W, n, output_format), render_newline(W, n))
        kids   == ChildrenOf(W, n)
    IN  IF IsFolder(W.nodes[n]) /\ W.nodes[n].display = EXPANDED
        THEN [RichTree(render) EXCEPT
                !.children = [i \in 1..Len(kids) |-> tree(W, kids[i], output_format)]]
        ELSE RichTree(render)

RECURSIVE TreeRows(_)
RECURSIVE TreeRowsOf(_, _)
\* The rows rich prints for a tree, top to bottom.
TreeRows(t) == <<t.label>> \o TreeRowsOf(t.children, 1)

TreeRowsOf(ts, i) == IF i > Len(ts) THEN <<>> ELSE TreeRows(ts[i]) \o TreeRowsOf(ts, i + 1)

\* sidecar.render_folders in [False, "False", "false"]
render_folders_off(sidecar) == sidecar.render_folders \in {"bool:False", "False", "false"}

\* _render_node(node)
render_node(W, n, sidecar) ==
    IF sidecar.condition_format = "" \/ Node_render(W, n, sidecar.condition_format) # ""
    THEN Node_render(W, n, sidecar.output_format)
    ELSE ""

sidecar_newline_mutant(W, f) == W.nodes[f].newline

\* if self.display != FolderDisplay.EXPANDED and self.newline: render += "\n"
sidecar_newline(W, f) == W.nodes[f].display # EXPANDED /\ W.nodes[f].newline

\* the folder's own row
sidecar_render(W, f, sidecar) ==
    Row(f,
        IF ~(render_folders_off(sidecar) /\ W.nodes[f].kind # "shared"
             /\ W.nodes[f].display = EXPANDED)
        THEN render_node(W, f, sidecar) ELSE "",
        sidecar_newline(W, f))

RECURSIVE render_sidecar(_, _, _, _, _)
RECURSIVE sidecar_children(_, _, _, _, _)

\* Folder.render_sidecar(sidecar, hide_root, _tree)
render_sidecar(W, f, sidecar, hide_root, _tree) ==
    LET render == sidecar_render(W, f, sidecar)
        t1 == IF ~_tree.made THEN RichTree(render)
              ELSE [_tree EXCEPT !.children = Append(@, render)]
        t2 == IF W.nodes[f].display = EXPANDED
              THEN sidecar_children(W, ChildrenOf(W, f), 1, sidecar, t1)
              ELSE t1
    IN  IF hide_root = "False" /\ t2.children # <<>>
        THEN [t2 EXCEPT !.children[1].title = TRUE]
        ELSE t2

\* for child in self.children
sidecar_children(W, kids, i, sidecar, _tree) ==
    IF i > Len(kids) THEN _tree
    ELSE sidecar_children(W, kids, i + 1, sidecar,
            IF IsFolder(W.nodes[kids[i]])
            THEN render_sidecar(W, kids[i], sidecar, None, _tree)
            ELSE [_tree EXCEPT !.children =
                    Append(@, Row(kids[i], render_node(W, kids[i], sidecar),
                                  W.nodes[kids[i]].newline))])

\* f.tree(output_format, hide_root=hide_root)
Tree(f, hide_root) ==
    /\ IsFolder(nodes[f]) /\ nodes[f].parent = 0
    /\ last' = Last("tree", f, [hide_root |-> hide_root],
                    tree(World, f, "[name]"), World, <<>>)
    /\ UNCHANGED <<nodes, buckets, extra>>

\* f.render_sidecar(sidecar, hide_root)
RenderSidecar(f, sidecar, hide_root) ==
    /\ IsFolder(nodes[f]) /\ nodes[f].parent = 0
    /\ last' = Last("render_sidecar", f, [sidecar |-> sidecar, hide_root |-> hide_root],
                    render_sidecar(World, f, sidecar, hide_root, NoTree), World, <<>>)
    /\ UNCHANGED <<nodes, buckets, extra>>

Sidecars ==
    [output_format : {"[name]"}, condition_format : {"", "[amount]"},
     render_folders : {"bool:True", "bool:False", "false"}]

ShownLine(amount, newline) ==
    LineDecl([DefaultArgs EXCEPT !.name = "l", !.amount = amount, !.newline = newline])

ShownKids ==
    {ShownLine(3, TRUE), ShownLine(0, FALSE),
     FolderDecl([DefaultArgs EXCEPT !.name = "x", !.newline = TRUE], <<ShownLine(3, TRUE)>>),
     FolderDecl([DefaultArgs EXCEPT !.name = "c", !.display = COLLAPSED, !.newline = TRUE],
                <<ShownLine(0, FALSE)>>),
     FolderDecl([DefaultArgs EXCEPT !.name = "e", !.display = LINE], <<>>),
     SharedDecl([DefaultArgs EXCEPT !.name = "s", !.target_amount = Finite(1),
                                    !.newline = TRUE], "B")}

ShownDecls ==
    {FolderDecl([DefaultArgs EXCEPT !.name = "root", !.display = d], kids)
       : d \in {EXPANDED, COLLAPSED}, kids \in SeqsUpTo(ShownKids, MaxKids)}

InitRender ==
    /\ \E W0 \in BucketWorlds, d \in ShownDecls :
         LET W == Build(W0, d).W IN
           /\ nodes = W.nodes
           /\ buckets = W.buckets
           /\ last = Last("Folder", Len(W.nodes), 0, <<>>, W0, <<>>)
    /\ extra = 0

NextRender ==
    \/ \E f \in Ids(World) : Process(f)
    \/ \E f \in Ids(World), hide_root \in {"True", "False"} : Tree(f, hide_root)
    \/ \E f \in Ids(World), sidecar \in Sidecars, hide_root \in {None, "True", "False"} :
         RenderSidecar(f, sidecar, hide_root)

SpecRender == InitRender /\ [][NextRender]_vars

(* ======================= properties of the tree ======================= *)

\* The nodes of the tree under (and including) f.
Subtree(W, f) == {f} \cup Descendants(W, f)

SharedIn(W, f) == {s \in Subtree(W, f) : W.nodes[s].kind = "shared"}

\* C1: every node that is some folder's child is held by exactly one folder,
\* exactly once in that folder's children list, and its parent field
\* references that folder.
C1_SingleParent ==
    \A c \in Ids(World) :
        Holders(World, c) # {} =>
            /\ Cardinality(Holders(World, c)) = 1
            /\ \A f \in Holders(World, c) :
                   /\ Occurrences(ChildrenOf(World, f), c) = 1
                   /\ nodes[c].parent = f

EnvelopeHit(n, fl) ==
    n.envelope # None /\ fl.account \in {EnvKey(n.envelope), EnvName(n.envelope)}

\* C3: match_lines on a folder whose envelope matches the fetched account
\* appends exactly one new Line to that folder's children and returns that
\* Line exactly once in the match list.
C3_GeneratedLineOnce ==
    (last.op = "match_lines" /\ EnvelopeHit(nodes[last.f], last.arg)) =>
        LET kids == ChildrenOf(World, last.f) IN
            /\ Len(kids) = Len(last.pre) + 1
            /\ SubSeq(kids, 1, Len(last.pre)) = last.pre
            /\ kids[Len(kids)] > last.n0
            /\ IsLine(nodes[kids[Len(kids)]])
            /\ Occurrences(last.ret, kids[Len(kids)]) = 1

RECURSIVE Paths(_, _, _)
RECURSIVE PathsVia(_, _, _, _)
\* The number of ways x is reached from n through children lists.
Paths(W, n, x) ==
    IF n = x THEN 1
    ELSE IF IsFolder(W.nodes[n]) THEN PathsVia(W, ChildrenOf(W, n), x, 1) ELSE 0

PathsVia(W, kids, x, i) ==
    IF i > Len(kids) THEN 0
    ELSE Paths(W, kids[i], x) + PathsVia(W, kids, x, i + 1)

RECURSIVE LeafTotal(_, _, _)
\* The amounts of the lines 1..k, each counted once per place it holds under f.
LeafTotal(W, f, k) ==
    IF k = 0 THEN 0
    ELSE (IF IsLine(W.nodes[k]) THEN W.nodes[k].amount * Paths(W, f, k) ELSE 0)
         + LeafTotal(W, f, k - 1)

\* C4: a folder's get_amount() is the sum of its children's amounts taken
\* recursively, that is the total of the lines under it, and 0 when it has
\* no children.
C4_AmountIsSumOfChildren ==
    \A f \in Ids(World) :
        IsFolder(nodes[f]) =>
            /\ get_amount(World, f) = LeafTotal(World, f, Len(nodes))
            /\ ChildrenOf(World, f) = <<>> => get_amount(World, f) = 0

\* A root holding a folder that holds a line, after an add_child and with
\* lines of different amounts under it.
C4_Witness ==
    /\ last.op = "add_child"
    /\ \E f, g, x \in Ids(World) :
           /\ nodes[f].kind = "folder" /\ nodes[g].kind = "folder"
           /\ g \in Kids(World, f) /\ x \in Kids(World, g)
           /\ IsLine(nodes[x]) /\ nodes[x].amount > 0
           /\ get_amount(World, f) > get_amount(World, g)
           /\ \E e \in Ids(World) : IsFolder(nodes[e]) /\ ChildrenOf(World, e) = <<>>

(* ----------------------- the processing pass -------------------------- *)

Calls(L, n) == Cardinality({k \in 1..Len(L) : L[k] = Event("process", n)})

\* C10 (as claimed): a pass over the root calls process() exactly once on
\* every node that is in the tree after the pass.
C10_EachNodeOnce ==
    last.op = "process" =>
        \A n \in Subtree(World, last.f) : Calls(last.log, n) = 1

RECURSIVE Depths(_, _, _)
\* For each event of the log from the i-th on, the calls still running after it.
Depths(L, i, d) ==
    IF i > Len(L) THEN <<>>
    ELSE LET e == d + (CASE L[i].ev = "process" -> 1
                         [] L[i].ev = "return" -> -1
                         [] OTHER -> 0)
         IN  <<e>> \o Depths(L, i + 1, e)

RECURSIVE EndOf(_, _, _)
\* The first event from the j-th on after which fewer than d calls run
\* (0 when there is none): where a call running at depth d ends.
EndOf(D, j, d) ==
    IF j > Len(D) THEN 0
    ELSE IF D[j] < d THEN j ELSE EndOf(D, j + 1, d)

RECURSIVE CallsAt(_, _, _, _, _)
\* The nodes whose process() starts at depth d within events i..j, in order.
CallsAt(L, D, i, j, d) ==
    IF i > j THEN <<>>
    ELSE (IF L[i].ev = "process" /\ D[i] = d THEN <<L[i].node>> ELSE <<>>)
         \o CallsAt(L, D, i + 1, j, d)

\* The log L of a pass started on root, where was[n] is the children list
\* of n and kind[n] its class before the pass: calls nest, each folder's
\* direct calls are its children list in order, and a SharedFolder draws
\* from its Bucket once, after its children and before it returns.
PassInOrder(was, root, L) ==
    LET D == Depths(L, 1, 0) IN
    /\ L # <<>>
    /\ L[1] = Event("process", root)
    /\ EndOf(D, 2, 1) = Len(L)
    /\ \A k \in 1..Len(L) :
           LET n == L[k].node
               e == EndOf(D, k + 1, D[k])
           IN
           /\ n \in 1..Len(was)
           /\ L[k].ev = "use_amount" => nodes[n].kind = "shared"
           /\ L[k].ev = "process" =>
                /\ e # 0
                /\ L[e] = Event("return", n)
                /\ CallsAt(L, D, k + 1, e, D[k] + 1) = was[n]
                /\ {j \in k..e : L[j] = Event("use_amount", n)}
                     = (IF nodes[n].kind = "shared" THEN {e - 1} ELSE {})

\* C10 (amended): one process() on the root runs depth-first in children-list
\* order: process() is called once for each place a node holds in the
\* children lists as they stood before the pass, each child's call (with a
\* SharedFolder's use_amount) ends before the next sibling's starts, and the
\* Lines a SharedFolder receives during the pass are not processed in it.
C10_DepthFirstInListOrder ==
    last.op = "process" => PassInOrder(last.was, last.f, last.log)

\* A pass in which two SharedFolders drew from the Bucket one after the
\* other and the second one still received a line.
C10_Witness ==
    /\ last.op = "process"
    /\ \E i, j \in 1..Len(last.log) :
           /\ i < j
           /\ last.log[i].ev = "use_amount" /\ last.log[j].ev = "use_amount"
           /\ last.log[i].node # last.log[j].node
           /\ ChildrenOf(World, last.log[i].node) # <<>>
           /\ ChildrenOf(World, last.log[j].node) # <<>>

(* ------------------- attribute propagation on attach ------------------ *)

\* The objects the last call attached to last.f.
Attached ==
    CASE last.op = "Folder" -> SeqToSet(last.ret)
      [] last.op = "add_child" -> {last.arg}
      [] OTHER -> {}

\* The attached objects and everything under them.
AttachedNodes == UNION {Subtree(World, c) : c \in Attached}

C7_NonNullOverwrites ==
    \A x \in AttachedNodes :
        LET o == last.was[x]
            n == nodes[x]
            f == nodes[last.f]
        IN  /\ f.currency # None => n.currency = f.currency
            /\ f.envelope # None => n.envelope = f.envelope
            /\ n.asset_class = (IF o.asset_class = UNKNOWN THEN f.asset_class ELSE o.asset_class)
            /\ n.asset_subclass
                 = (IF o.asset_subclass = UNKNOWN THEN f.asset_subclass ELSE o.asset_subclass)

\* C7 (amended): the same for a folder whose currency is neither None nor
\* the empty string; a folder with an empty currency changes no currency.
C7_NonEmptyOverwrites ==
    \A x \in AttachedNodes :
        LET o == last.was[x]
            n == nodes[x]
            f == nodes[last.f]
        IN  /\ Truthy(f.currency) => n.currency = f.currency
            /\ f.currency = "" => n.currency = o.currency
            /\ f.envelope # None => n.envelope = f.envelope
            /\ n.asset_class = (IF o.asset_class = UNKNOWN THEN f.asset_class ELSE o.asset_class)
            /\ n.asset_subclass
                 = (IF o.asset_subclass = UNKNOWN THEN f.asset_subclass ELSE o.asset_subclass)

\* A folder with a currency and an envelope received a folder whose line
\* (attached to it earlier) held another currency, envelope and class.
C7_Witness ==
    \E c \in Attached :
        \E y \in Descendants(World, c) :
            LET o == last.was[y]
                f == nodes[last.f]
            IN  /\ Truthy(f.currency) /\ Truthy(o.currency) /\ o.currency # f.currency
                /\ f.envelope # None /\ o.envelope # None /\ o.envelope # f.envelope
                /\ nodes[y].currency = f.currency
                /\ o.asset_class # UNKNOWN /\ o.asset_class # f.asset_class

(* ------------------------ weighted performance ------------------------ *)

C11_SkippedChildrenAbsent ==
    (last.op = "get_perf" /\ ~last.ret.skip) =>
        LET ideal == last.arg
            kept  == SelectSeq(ChildrenOf(World, last.f),
                               LAMBDA c : ~node_perf(World, c, ideal).skip)
            n     == Len(kept)
            perfs == [i \in 1..n |-> node_perf(World, kept[i], ideal)]
            basis == [i \in 1..n |->
                        IF ideal THEN get_ideal(World, kept[i]) ELSE get_amount(World, kept[i])]
            total == ISum(basis, 1)
        IN  IF total # 0
            THEN RMul(last.ret.expected, RInt(total))
                   = RSum([i \in 1..n |-> RMul(RInt(basis[i]), perfs[i].expected)], 1)
            ELSE RMul(last.ret.expected, RInt(n)) = RSum([i \in 1..n |-> perfs[i].expected], 1)

(* ------------------------- saving and loading ------------------------- *)

RECURSIVE Shape(_, _)
\* What the claim compares: a node's type and name, a folder's display,
\* newline and target, and its children in order.
Shape(W, n) ==
    IF IsLine(W.nodes[n])
    THEN [type |-> "line", name |-> W.nodes[n].name, amount |-> W.nodes[n].amount,
          newline |-> W.nodes[n].newline]
    ELSE LET kids == ChildrenOf(W, n) IN
         [type |-> W.nodes[n].kind, name |-> W.nodes[n].name, display |-> W.nodes[n].display,
          newline |-> W.nodes[n].newline, target |-> W.nodes[n].target,
          children |-> [i \in 1..Len(kids) |-> Shape(W, kids[i])]]

RECURSIVE ShapeBelowPlain(_, _)
\* The same, a SharedFolder being described by its bucket and target
\* amount in place of its children.
ShapeBelowPlain(W, n) ==
    CASE IsLine(W.nodes[n]) -> Shape(W, n)
      [] W.nodes[n].kind = "shared" ->
           [type |-> "shared", name |-> W.nodes[n].name, display |-> W.nodes[n].display,
            newline |-> W.nodes[n].newline, target |-> W.nodes[n].target,
            bucket |-> W.nodes[n].bucket, target_amount |-> W.nodes[n].target_amount]
      [] OTHER ->
           LET kids == ChildrenOf(W, n) IN
           [type |-> "folder", name |-> W.nodes[n].name, display |-> W.nodes[n].display,
            newline |-> W.nodes[n].newline, target |-> W.nodes[n].target,
            children |-> [i \in 1..Len(kids) |-> ShapeBelowPlain(W, kids[i])]]

\* C8 as stated: in every reachable state, processed or not, the tree
\* that from_dict(to_dict(t)) yields has the name, display, newline and
\* target of t at every folder and the same children, type for type.
C8_RoundTripIdentical ==
    last.op = "from_dict" => Shape(World, last.ret[1]) = Shape(World, last.f)

\* C8 as the code has it: the rebuilt tree agrees with t on every folder's
\* name, display, newline and target and on the children of every plain
\* Folder; a rebuilt SharedFolder has the bucket and target amount of the
\* original and holds its bucket's lines, so the children agree throughout
\* when every SharedFolder of t still holds its bucket's lines.
C8_RoundTripUpToShared ==
    last.op = "from_dict" =>
        /\ ShapeBelowPlain(World, last.ret[1]) = ShapeBelowPlain(World, last.f)
        /\ \A s \in SharedIn(World, last.ret[1]) :
               ChildrenOf(World, s) = buckets[nodes[s].bucket].lines
        /\ (\A s \in SharedIn(World, last.f) :
               ChildrenOf(World, s) = buckets[nodes[s].bucket].lines)
             => Shape(World, last.ret[1]) = Shape(World, last.f)

\* A processed tree with a Line, a Folder and a SharedFolder has been
\* saved and loaded again.
C8_Witness ==
    /\ last.op = "from_dict"
    /\ \E s \in SharedIn(World, last.f) :
           ChildrenOf(World, s) # buckets[nodes[s].bucket].lines
    /\ \E c \in Kids(World, last.f) :
           /\ nodes[c].kind = "folder" /\ nodes[c].display = COLLAPSED
           /\ \E l \in Kids(World, c) : IsLine(nodes[l])

(* ------------------------------ rendering ----------------------------- *)

\* C9: the rows of render_sidecar are, one for one and in the same order,
\* the rows tree() shows below the root; each is there even when its text
\* is blank, ends in a newline exactly when its node is a non-EXPANDED
\* folder or a non-folder child with newline set (as the row of the main
\* tree does), and the title precedes the first row only, and only when
\* hide_root is false.
C9_SidecarRowsMatchTree ==
    last.op = "render_sidecar" =>
        LET side == last.ret.children
            main == Tail(TreeRows(tree(World, last.f, last.arg.sidecar.output_format)))
        IN  /\ Len(side) = Len(main)
            /\ \A i \in 1..Len(side) :
                 LET n == side[i].node IN
                 /\ n = main[i].node
                 /\ side[i].nl = main[i].nl
                 /\ side[i].nl <=>
                       IF IsFolder(nodes[n])
                       THEN nodes[n].display # EXPANDED /\ nodes[n].newline
                       ELSE nodes[n].newline
                 /\ side[i].title <=> (i = 1 /\ last.arg.hide_root = "False")

\* A sidecar with a title over a blank row, the row of a collapsed folder
\* ending in a newline and the rows of an expanded sub-folder with newline
\* set.
C9_Witness ==
    /\ last.op = "render_sidecar"
    /\ last.arg.hide_root = "False"
    /\ \E i, j, k \in 1..Len(last.ret.children) :
         LET side == last.ret.children IN
         /\ side[1].title
         /\ side[i].text = ""
         /\ IsFolder(nodes[side[j].node]) /\ side[j].nl
         /\ k < Len(side)
         /\ nodes[side[k].node].kind = "folder" /\ nodes[side[k].node].display = EXPANDED
         /\ nodes[side[k].node].newline /\ nodes[side[k + 1].node].parent = side[k].node

====
